---- MODULE Spec2Model ----
(***************************************************************************)
(* team-coup-ui: the polling client (App.tsx), its HTTP helper (api.ts)    *)
(* and the target selection controller of the table (GameLayout.tsx).      *)
(*                                                                         *)
(* The event loop is single-threaded: every action below is one handler,   *)
(* or the continuation of one handler after an await, run to completion.   *)
(***************************************************************************)
EXTENDS Integers, Sequences, FiniteSets, Bags, TLC

(* ------------------------------ bounds -------------------------------- *)

\* poll sessions (runs of the polling effect) ever started
MaxSessions == 2
\* requests of user-triggered handlers in flight at once
MaxCmds == 1
\* moves of the game at the server
MaxVer == 1
\* players that have joined a lobby
MaxPlayers == 6
\* cards offered in an exchange
MaxPool == 4

(* ----------------------------- constants ------------------------------ *)

POLL_MS == 1200

NULL == "null"
UNDEFINED == "undefined"

\* useState<GameView | null>(null)
NullView == [null |-> TRUE]

\* player tokens the server hands out
Tokens == {"t1", "t2"}

Ids == {"p1", "p2", "p3", "p4"}
TurnOrder == <<"p1", "p2", "p3", "p4">>
TeamOf(p) == IF p \in {"p1", "p3"} THEN "A" ELSE "B"

Modes == {"normal_team", "super_team"}

\* ids in the order the players joined
AllIds == <<"p1", "p2", "p3", "p4", "p5", "p6", "p7", "p8">>

\* pending_action: null / pending_block: null
NullAction == [actor_id |-> NULL, action |-> NULL, target_id |-> NULL]
NullBlock == [blocker_id |-> NULL, block_type |-> NULL]

\* string[] | null: a list of roles, or null
NullCards == [isNull |-> TRUE, list |-> <<>>]
CardList(roles) == [isNull |-> FALSE, list |-> roles]

\* roles as the server names them, in some order of dealing
Roles == <<"Duke", "Captain", "Ambassador", "Assassin", "Contessa", "Duke">>

Phases ==
    {"lobby", "action_selection", "block_window", "challenge_window",
     "swap_choice", "loss_choice", "game_over"}

(* ------------------------------ GameView ------------------------------ *)

\* the names the players joined with
NameOf(p) ==
    CASE p = "p1" -> "Ann" [] p = "p2" -> "Bob" [] p = "p3" -> "Cy"
      [] p = "p4" -> "Dee" [] OTHER -> p

\* PublicPlayer, as the server projects it
PublicPlayer(p, alive, coins) ==
    [player_id |-> p, name |-> NameOf(p), team |-> TeamOf(p),
     alive |-> alive, coins |-> coins,
     num_cards |-> IF alive THEN 2 ELSE 0, cards |-> NullCards]

\* A GameView of the table seen from seat p1, taken of server state ver.
\* p1 holds 12 coins, p2 holds 2, the others none; only p2 can be dead.
GameView(ver, phase, cur, p2alive) ==
    [ver |-> ver, phase |-> phase, mode |-> "super_team", you |-> "p1",
     current_player |-> cur, turn_order |-> TurnOrder,
     players |-> [p \in Ids |->
        PublicPlayer(p, p # "p2" \/ p2alive,
                     IF p = "p1" THEN 12 ELSE IF p = "p2" THEN 2 ELSE 0)],
     pending_action |-> NullAction, pending_block |-> NullBlock,
     winner_team |-> IF phase = "game_over" THEN "A" ELSE NULL,
     exchange_cards |-> NullCards,
     loss_choice_player_id |-> NULL, loss_choice_cards |-> NullCards]

\* The snapshots the server answers with, of server state ver: the game
\* starts in the lobby; once it has moved it is p1's turn to choose an
\* action (p2 alive or dead), or a block is awaited, or it is over.
ServerViews(ver) ==
    IF ver = 0
    THEN {GameView(ver, "lobby", NULL, TRUE)}
    ELSE {GameView(ver, "action_selection", "p1", TRUE),
          GameView(ver, "action_selection", "p1", FALSE),
          GameView(ver, "block_window", "p1", TRUE),
          GameView(ver, "game_over", NULL, FALSE)}

(* ------------------------------- api.ts ------------------------------- *)

\* What fetch() can come back with: a 2xx response, a non-2xx response with
\* a text body (possibly empty), or a rejected promise (network failure).
HttpOutcomes ==
    {[status |-> "ok", body |-> "", statusText |-> "OK"],
     [status |-> "http", body |-> "illegal move", statusText |-> "Bad Request"],
     [status |-> "http", body |-> "", statusText |-> "Bad Request"],
     [status |-> "http", body |-> "", statusText |-> ""],
     [status |-> "neterr", body |-> "", statusText |-> ""]}

\* Fault: the text of the response is not read, the status text is thrown.
postJSON_StatusOnly(res) ==
    IF res.status = "ok" THEN [ok |-> TRUE, message |-> ""]
    ELSE IF res.status = "http"
         THEN [ok |-> FALSE, message |-> res.statusText]
         ELSE [ok |-> FALSE, message |-> "Failed to fetch"]

\* postJSON: resolves on res.ok, else throws Error(text || res.statusText);
\* a rejected fetch throws its own TypeError.
postJSON(res) ==
    IF res.status = "ok" THEN [ok |-> TRUE, message |-> ""]
    ELSE IF res.status = "http"
         THEN [ok |-> FALSE,
               message |-> IF res.body # "" THEN res.body ELSE res.statusText]
         ELSE [ok |-> FALSE, message |-> "Failed to fetch"]

\* catch (e) { setError(e.message || String(e)) }
errorText(thrown) == IF thrown.message # "" THEN thrown.message ELSE "Error"

(* ------------------------------- state -------------------------------- *)

VARIABLES
    playerToken,     \* App: useState<string | null>
    view,            \* App: useState<GameView | null>
    error,           \* App: useState<string | null>, the banner
    sessions,        \* the runs of the polling effect, oldest first:
                     \*   [token, cancel, timers], timers the delays of
                     \*   the setTimeout calls not yet fired
    net,             \* bag of HTTP requests awaiting their response
    srvVer,          \* the server's game state (its change count)
    selectedTarget,  \* GameLayout: useState<string | null>
    last,            \* the handler that ran last and what it sent
    swapSelected,    \* SwapChoicePanel: useState<number[]>, `selected`
    lossSelected     \* LossChoicePanel: useState<number | null>, `selected`:
                     \*   <<>> for null, <<idx>> for idx

vars ==
    <<playerToken, view, error, sessions, net, srvVer, selectedTarget, last,
      swapSelected, lossSelected>>

\* A request on the wire: its endpoint ("poll" is the loop's /state), the
\* poll session that sent it (0 for a handler's own request) and the server
\* state at the time it was sent. The answers modelled do not depend on the
\* player_token in the body, which is left out.
Request(kind, sid) == [kind |-> kind, sid |-> sid, sentVer |-> srvVer]

\* What ran last: the handler (op), whether up to its await ("call") or
\* after it ("settle"), and what it saw or sent.
Event(op, step) ==
    [op |-> op, step |-> step, sid |-> 0, ok |-> FALSE, action |-> "",
     target_id |-> "", seat |-> "", payload |-> <<>>]

OkResponse == [status |-> "ok", body |-> "", statusText |-> "OK"]

\* The answers request r can get: any failure, or a snapshot of a server
\* state no older than the request.
Replies(r) ==
    {[res |-> f, v |-> NullView] : f \in HttpOutcomes \ {OkResponse}}
    \cup {[res |-> OkResponse, v |-> v] :
             v \in UNION {ServerViews(ver) : ver \in r.sentVer .. srvVer}}

Add(bag, r) == bag (+) SetToBag({r})
Remove(bag, r) == bag (-) SetToBag({r})

Count(bag, S) == BagCardinality([r \in S |-> CopiesIn(r, bag)])
\* poll requests of session sid awaiting their response, among bag
InFlightIn(bag, sid) ==
    Count(bag, {r \in BagToSet(bag) : r.kind = "poll" /\ r.sid = sid})
InFlight(sid) == InFlightIn(net, sid)
\* handler requests awaiting their response
CmdsInFlight == Count(net, {r \in BagToSet(net) : r.kind # "poll"})

\* GameLayout is rendered only once both are set (App.tsx:182)
Mounted == playerToken # NULL /\ view # NullView
LandingShown == ~Mounted

\* After a handler ran, React renders: SwapChoicePanel / LossChoicePanel
\* keep their `selected` state while ActionPanel goes on rendering them,
\* that is while the phase of the held view stays theirs; once unmounted,
\* the next mount starts again from useState's initial value.
choicePanels ==
    /\ swapSelected' =
          IF view' # NullView /\ view'.phase = "swap_choice"
          THEN swapSelected ELSE <<>>
    /\ lossSelected' =
          IF view' # NullView /\ view'.phase = "loss_choice"
          THEN lossSelected ELSE <<>>

Init ==
    /\ playerToken = NULL
    /\ view = NullView
    /\ error = NULL
    /\ sessions = <<>>
    /\ net = EmptyBag
    /\ srvVer = 0
    /\ selectedTarget = NULL
    /\ last = Event("init", "call")
    /\ swapSelected = <<>>
    /\ lossSelected = <<>>

(* ------------------------- App: polling effect ------------------------ *)

\* Fault: the effect returns no cleanup, the previous run keeps polling.
cleanup_Missing(ss) == ss

\* The effect cleanup: cancel = true in the closure of the last effect run.
cleanup(ss) ==
    IF ss = <<>> THEN ss
    ELSE [ss EXCEPT ![Len(ss)] = [@ EXCEPT !.cancel = TRUE]]

\* useEffect(..., [playerToken]) after a render in which playerToken became
\* tok: the previous run is cleaned up, then a new run starts with its own
\* cancel flag and calls loop(), which sends the first fetchState.
pollingEffect(tok, nt) ==
    IF tok = playerToken
    THEN /\ sessions' = sessions
         /\ net' = nt
    ELSE /\ sessions' = Append(cleanup(sessions),
                               [token |-> tok, cancel |-> FALSE, timers |-> <<>>])
         /\ net' = Add(nt, Request("poll", Len(sessions) + 1))

\* Fault: setView(v) without the `if (!cancel)` in front of it.
loopSettle_CommitsAfterStop(sid, r, res, v) ==
    LET s == sessions[sid]
        out == postJSON(res)
    IN /\ view' = IF out.ok THEN v ELSE view
       /\ sessions' = [sessions EXCEPT ![sid].timers =
                          IF ~s.cancel THEN Append(@, POLL_MS) ELSE @]
       /\ net' = Remove(net, r)
       /\ last' = [Event("loop", "settle") EXCEPT !.sid = sid, !.ok = out.ok]
       /\ UNCHANGED <<playerToken, error, srvVer, selectedTarget>>

\* Fault: the catch block shows the failure, as the handlers' catch does.
loopSettle_SurfacesFailure(sid, r, res, v) ==
    LET s == sessions[sid]
        out == postJSON(res)
    IN /\ view' = IF out.ok /\ ~s.cancel THEN v ELSE view
       /\ error' = IF out.ok THEN error ELSE errorText(out)
       /\ sessions' = [sessions EXCEPT ![sid].timers =
                          IF ~s.cancel THEN Append(@, POLL_MS) ELSE @]
       /\ net' = Remove(net, r)
       /\ last' = [Event("loop", "settle") EXCEPT !.sid = sid, !.ok = out.ok]
       /\ UNCHANGED <<playerToken, srvVer, selectedTarget>>

\* Fault: setTimeout(loop, POLL_MS) inside the try block, after setView:
\* a failed fetch ends the loop.
loopSettle_GivesUpOnFailure(sid, r, res, v) ==
    LET s == sessions[sid]
        out == postJSON(res)
    IN /\ view' = IF out.ok /\ ~s.cancel THEN v ELSE view
       /\ sessions' = [sessions EXCEPT ![sid].timers =
                          IF out.ok /\ ~s.cancel THEN Append(@, POLL_MS) ELSE @]
       /\ net' = Remove(net, r)
       /\ last' = [Event("loop", "settle") EXCEPT !.sid = sid, !.ok = out.ok]
       /\ UNCHANGED <<playerToken, error, srvVer, selectedTarget>>

\* loop(), after `await fetchState(playerToken)` settles for session sid.
loopSettle(sid, r, res, v) ==
    LET s == sessions[sid]
        out == postJSON(res)
    IN /\ view' = IF out.ok /\ ~s.cancel THEN v ELSE view
       /\ sessions' = [sessions EXCEPT ![sid].timers =
                          IF ~s.cancel THEN Append(@, POLL_MS) ELSE @]
       /\ net' = Remove(net, r)
       /\ last' = [Event("loop", "settle") EXCEPT !.sid = sid, !.ok = out.ok]
       /\ UNCHANGED <<playerToken, error, srvVer, selectedTarget>>

pollSettle(sid) ==
    \E r \in BagToSet(net) :
        /\ r.kind = "poll"
        /\ r.sid = sid
        /\ \E a \in Replies(r) : loopSettle(sid, r, a.res, a.v)
        /\ choicePanels

PollSettle == \E sid \in 1 .. MaxSessions : pollSettle(sid)

\* Fault: setInterval(loop, POLL_MS) in place of setTimeout: the timer
\* stays armed when it fires.
timerFire_Interval(sid) ==
    /\ sid \in DOMAIN sessions
    /\ sessions[sid].timers # <<>>
    /\ InFlightIn(net, sid) < 3
    /\ net' = Add(net, Request("poll", sid))
    /\ last' = [Event("loop", "call") EXCEPT !.sid = sid]
    /\ UNCHANGED <<playerToken, view, error, sessions, srvVer, selectedTarget>>
    /\ choicePanels

\* setTimeout(loop, POLL_MS) fires: loop() runs and sends fetchState.
timerFire(sid) ==
    /\ sid \in DOMAIN sessions
    /\ sessions[sid].timers # <<>>
    /\ sessions' = [sessions EXCEPT ![sid].timers = Tail(@)]
    /\ net' = Add(net, Request("poll", sid))
    /\ last' = [Event("loop", "call") EXCEPT !.sid = sid]
    /\ UNCHANGED <<playerToken, view, error, srvVer, selectedTarget>>
    /\ choicePanels

TimerFire == \E sid \in 1 .. MaxSessions : timerFire(sid)

(* --------------------------- App: handlers ---------------------------- *)

\* handleCreateGame / handleJoinGame up to their first await. The buttons
\* are on the landing form, shown while !playerToken || !view.
login(kind) ==
    /\ LandingShown
    /\ CmdsInFlight < MaxCmds
    /\ error' = NULL
    /\ net' = Add(net, Request(kind, 0))
    /\ last' = Event(kind, "call")
    /\ UNCHANGED <<playerToken, view, sessions, srvVer, selectedTarget>>
    /\ choicePanels

handleCreateGame == login("create_game")

handleJoinGame == login("join_game")

\* handleCreateGame / handleJoinGame after `await createGame(..)` /
\* `await joinGame(..)`: setGameId, setPlayerToken(player_token), then
\* fetchState(player_token) is sent; the render that follows runs the effect.
loginSettle(r, res, tok) ==
    LET out == postJSON(res)
    IN /\ IF out.ok
          THEN /\ tok # playerToken => Len(sessions) < MaxSessions
               /\ playerToken' = tok
               /\ pollingEffect(tok, Add(Remove(net, r), Request("state", 0)))
               /\ error' = error
          ELSE /\ error' = errorText(out)
               /\ net' = Remove(net, r)
               /\ UNCHANGED <<playerToken, sessions>>
       /\ last' = [Event(r.kind, "settle") EXCEPT !.ok = out.ok]
       /\ UNCHANGED <<view, srvVer, selectedTarget>>

LoginSettle ==
    \E r \in BagToSet(net) :
        /\ r.kind \in {"create_game", "join_game"}
        /\ \/ \E tok \in Tokens : loginSettle(r, OkResponse, tok)
           \/ \E f \in HttpOutcomes \ {OkResponse} : loginSettle(r, f, NULL)
        /\ choicePanels

\* `const v = await fetchState(..); setView(v);` of handleCreateGame,
\* handleJoinGame and handleStartGame, with their catch.
fetchStateSettle(r, res, v) ==
    LET out == postJSON(res)
    IN /\ view' = IF out.ok THEN v ELSE view
       /\ error' = IF out.ok THEN error ELSE errorText(out)
       /\ net' = Remove(net, r)
       /\ last' = [Event("state", "settle") EXCEPT !.ok = out.ok]
       /\ UNCHANGED <<playerToken, sessions, srvVer, selectedTarget>>

FetchStateSettle ==
    \E r \in BagToSet(net) :
        /\ r.kind = "state"
        /\ \E a \in Replies(r) : fetchStateSettle(r, a.res, a.v)
        /\ choicePanels

\* handleStartGame up to its first await; the button is the lobby panel's.
handleStartGame ==
    /\ Mounted
    /\ view.phase = "lobby"
    /\ CmdsInFlight < MaxCmds
    /\ playerToken # NULL
    /\ net' = Add(net, Request("start_game", 0))
    /\ last' = Event("start_game", "call")
    /\ UNCHANGED <<playerToken, view, error, sessions, srvVer, selectedTarget>>
    /\ choicePanels

\* handleStartGame after `await startGame(playerToken)`.
startGameSettle(r, res) ==
    LET out == postJSON(res)
    IN /\ IF out.ok
          THEN /\ net' = Add(Remove(net, r), Request("state", 0))
               /\ error' = error
          ELSE /\ net' = Remove(net, r)
               /\ error' = errorText(out)
       /\ last' = [Event("start_game", "settle") EXCEPT !.ok = out.ok]
       /\ UNCHANGED <<playerToken, view, sessions, srvVer, selectedTarget>>

StartGameSettle ==
    \E r \in BagToSet(net), res \in HttpOutcomes :
        /\ r.kind = "start_game"
        /\ startGameSettle(r, res)
        /\ choicePanels

\* sendAction: the JSON body of POST /action (target_id ?? null).
sendAction(player_token, action, target_id) ==
    [player_token |-> player_token, action |-> action,
     target_id |-> IF target_id \in {UNDEFINED, NULL} THEN NULL ELSE target_id]

\* handleAction up to its await: everything but GameLayout's own state.
handleAction(action, target_id) ==
    IF playerToken = NULL
    THEN UNCHANGED <<playerToken, view, error, sessions, net, srvVer, last>>
    ELSE LET body == sendAction(playerToken, action,
                        IF target_id \in {UNDEFINED, NULL} THEN NULL ELSE target_id)
         IN /\ error' = NULL
            /\ net' = Add(net, Request("action", 0))
            /\ last' = [Event("action", "call") EXCEPT
                            !.action = body.action, !.target_id = body.target_id]
            /\ UNCHANGED <<playerToken, view, sessions, srvVer>>

\* Fault: a successful command does not commit the view it returned.
actionSettle_KeepsView(r, res, v) ==
    LET out == postJSON(res)
    IN /\ view' = view
       /\ error' = IF out.ok THEN error ELSE errorText(out)
       /\ net' = Remove(net, r)
       /\ last' = [Event("action", "settle") EXCEPT !.ok = out.ok]
       /\ UNCHANGED <<playerToken, sessions, srvVer, selectedTarget>>

\* handleAction after `await sendAction(..)`.
actionSettle(r, res, v) ==
    LET out == postJSON(res)
    IN /\ view' = IF out.ok THEN v ELSE view
       /\ error' = IF out.ok THEN error ELSE errorText(out)
       /\ net' = Remove(net, r)
       /\ last' = [Event("action", "settle") EXCEPT !.ok = out.ok]
       /\ UNCHANGED <<playerToken, sessions, srvVer, selectedTarget>>

ActionSettle ==
    \E r \in BagToSet(net) :
        /\ r.kind = "action"
        /\ \E a \in Replies(r) : actionSettle(r, a.res, a.v)
        /\ choicePanels

\* handleBlock up to its await.
handleBlock(block_type) ==
    IF playerToken = NULL
    THEN UNCHANGED vars
    ELSE /\ error' = NULL
         /\ net' = Add(net, Request("block", 0))
         /\ last' = [Event("block", "call") EXCEPT !.action = block_type]
         /\ UNCHANGED <<playerToken, view, sessions, srvVer, selectedTarget>>

\* handleNoBlock up to its await.
handleNoBlock ==
    IF playerToken = NULL
    THEN UNCHANGED vars
    ELSE /\ error' = NULL
         /\ net' = Add(net, Request("no_block", 0))
         /\ last' = Event("no_block", "call")
         /\ UNCHANGED <<playerToken, view, sessions, srvVer, selectedTarget>>

\* handleBlock / handleNoBlock after `await sendBlock(..)` /
\* `await sendNoBlock(..)`.
blockSettle(r, res, v) ==
    LET out == postJSON(res)
    IN /\ view' = IF out.ok THEN v ELSE view
       /\ error' = IF out.ok THEN error ELSE errorText(out)
       /\ net' = Remove(net, r)
       /\ last' = [Event(r.kind, "settle") EXCEPT !.ok = out.ok]
       /\ UNCHANGED <<playerToken, sessions, srvVer, selectedTarget>>

BlockSettle ==
    \E r \in BagToSet(net) :
        /\ r.kind \in {"block", "no_block"}
        /\ \E a \in Replies(r) : blockSettle(r, a.res, a.v)
        /\ choicePanels

\* handleChallenge up to its await.
handleChallenge ==
    IF playerToken = NULL
    THEN UNCHANGED vars
    ELSE /\ error' = NULL
         /\ net' = Add(net, Request("challenge", 0))
         /\ last' = Event("challenge", "call")
         /\ UNCHANGED <<playerToken, view, sessions, srvVer, selectedTarget>>

\* handleNoChallenge up to its await.
handleNoChallenge ==
    IF playerToken = NULL
    THEN UNCHANGED vars
    ELSE /\ error' = NULL
         /\ net' = Add(net, Request("no_challenge", 0))
         /\ last' = Event("no_challenge", "call")
         /\ UNCHANGED <<playerToken, view, sessions, srvVer, selectedTarget>>

\* handleChallenge / handleNoChallenge after `await sendChallenge(..)` /
\* `await sendNoChallenge(..)`.
challengeSettle(r, res, v) ==
    LET out == postJSON(res)
    IN /\ view' = IF out.ok THEN v ELSE view
       /\ error' = IF out.ok THEN error ELSE errorText(out)
       /\ net' = Remove(net, r)
       /\ last' = [Event(r.kind, "settle") EXCEPT !.ok = out.ok]
       /\ UNCHANGED <<playerToken, sessions, srvVer, selectedTarget>>

ChallengeSettle ==
    \E r \in BagToSet(net) :
        /\ r.kind \in {"challenge", "no_challenge"}
        /\ \E a \in Replies(r) : challengeSettle(r, a.res, a.v)
        /\ choicePanels

\* handleFinishExchange up to its await.
handleFinishExchange(keepIndices) ==
    IF playerToken = NULL
    THEN UNCHANGED vars
    ELSE /\ error' = NULL
         /\ net' = Add(net, Request("finish_exchange", 0))
         /\ last' = [Event("finish_exchange", "call") EXCEPT
                         !.payload = keepIndices]
         /\ UNCHANGED <<playerToken, view, sessions, srvVer, selectedTarget>>

\* handleChooseLoss up to its await.
handleChooseLoss(cardIndex) ==
    IF playerToken = NULL
    THEN UNCHANGED vars
    ELSE /\ error' = NULL
         /\ net' = Add(net, Request("choose_loss", 0))
         /\ last' = [Event("choose_loss", "call") EXCEPT
                         !.payload = <<cardIndex>>]
         /\ UNCHANGED <<playerToken, view, sessions, srvVer, selectedTarget>>

\* handleFinishExchange / handleChooseLoss after `await finishExchange(..)`
\* / `await chooseLoss(..)`.
choiceSettle(r, res, v) ==
    LET out == postJSON(res)
    IN /\ view' = IF out.ok THEN v ELSE view
       /\ error' = IF out.ok THEN error ELSE errorText(out)
       /\ net' = Remove(net, r)
       /\ last' = [Event(r.kind, "settle") EXCEPT !.ok = out.ok]
       /\ UNCHANGED <<playerToken, sessions, srvVer, selectedTarget>>

ChoiceSettle ==
    \E r \in BagToSet(net) :
        /\ r.kind \in {"finish_exchange", "choose_loss"}
        /\ \E a \in Replies(r) : choiceSettle(r, a.res, a.v)
        /\ choicePanels

(* ------------------- GameLayout: target selection --------------------- *)

\* const you = view.players[view.you]
You(v) == v.players[v.you]

\* const seats = rotatedIds.map(id => view.players[id]).filter(Boolean)
SeatIds(v) == {v.turn_order[i] : i \in DOMAIN v.turn_order} \cap DOMAIN v.players

\* Fault: isYourTurn is missing from canAct.
canAct_AnyTurn(v) ==
    v.phase = "action_selection" /\ v.phase # "game_over"

canAct(v) ==
    v.phase = "action_selection" /\ v.current_player = v.you
        /\ v.phase # "game_over"

targetRequiredActions ==
    {"coup", "assassinate", "super_assassinate", "steal", "super_steal",
     "super_coup"}

Actions ==
    {"income", "foreign_aid", "coup", "super_coup", "assassinate",
     "super_assassinate", "steal", "super_steal", "tax", "super_tax",
     "exchange", "super_exchange"}

SuperActions ==
    {"super_coup", "super_assassinate", "super_steal", "super_tax",
     "super_exchange"}

\* Fault: the coins of the selected target are not looked at.
targetHasCoins_AnyTarget(v, sel) ==
    sel # NULL /\ sel \in DOMAIN v.players

targetHasCoins(v, sel) ==
    sel # NULL /\ sel \in DOMAIN v.players /\ v.players[sel].coins > 0

\* Fault: the num_cards >= 2 requirement is missing.
canUseSupers_AnyCards(v) == v.mode = "super_team"

canUseSupers(v) == You(v).num_cards >= 2 /\ v.mode = "super_team"

\* Fault: the Coup button compares the coins with 6.
actionEnabled_CoupAtSix(v, sel, action) ==
    /\ v.phase = "action_selection"
    /\ action \in SuperActions => v.mode = "super_team"
    /\ canAct(v)
    /\ action = "coup" => You(v).coins >= 6 /\ sel # NULL
    /\ action = "super_coup" => You(v).coins >= 12 /\ sel # NULL
    /\ action = "assassinate" => You(v).coins >= 3 /\ sel # NULL
    /\ action = "super_assassinate" =>
            You(v).coins >= 3 /\ sel # NULL /\ canUseSupers(v)
    /\ action = "steal" => sel # NULL /\ targetHasCoins(v, sel)
    /\ action = "super_steal" =>
            sel # NULL /\ targetHasCoins(v, sel) /\ canUseSupers(v)
    /\ action \in {"super_tax", "super_exchange"} => canUseSupers(v)

\* The action_selection panel: is the button of `action` rendered and not
\* disabled (GameLayout.tsx:862-1038)?
actionEnabled(v, sel, action) ==
    /\ v.phase = "action_selection"
    /\ action \in SuperActions => v.mode = "super_team"
    /\ canAct(v)
    /\ action = "coup" => You(v).coins >= 7 /\ sel # NULL
    /\ action = "super_coup" => You(v).coins >= 12 /\ sel # NULL
    /\ action = "assassinate" => You(v).coins >= 3 /\ sel # NULL
    /\ action = "super_assassinate" =>
            You(v).coins >= 3 /\ sel # NULL /\ canUseSupers(v)
    /\ action = "steal" => sel # NULL /\ targetHasCoins(v, sel)
    /\ action = "super_steal" =>
            sel # NULL /\ targetHasCoins(v, sel) /\ canUseSupers(v)
    /\ action \in {"super_tax", "super_exchange"} => canUseSupers(v)

\* {superMode && <button ..>}: is the button of `action` rendered?
actionOffered(v, action) ==
    /\ v.phase = "action_selection"
    /\ action \in SuperActions => v.mode = "super_team"

(* --------------------- ActionPanel: lobby branch ---------------------- *)

\* Object.keys(view.players).length, the count the lobby panel shows
playerCount(v) == Cardinality(DOMAIN v.players)

\* The Start game button of the lobby panel: rendered in the lobby, with
\* no `disabled` attribute.
startEnabled(v) == v.phase = "lobby"

(* ------------------ ActionPanel: block_window branch ------------------ *)

BlockTypes ==
    {"block_foreign_aid", "block_steal_captain", "block_steal_ambassador",
     "block_assassinate", "block_coup"}

\* const actor = view.players[act.actor_id] is defined
actorKnown(v) == v.pending_action.actor_id \in DOMAIN v.players

isTarget(v) == v.pending_action.target_id = You(v).player_id

\* Fault: only the actor itself counts as the actor's team.
isSameTeam_ActorOnly(v) ==
    actorKnown(v) /\ v.pending_action.actor_id = You(v).player_id

isSameTeam(v) ==
    actorKnown(v) /\ v.players[v.pending_action.actor_id].team = You(v).team

isTargetedAction(v) ==
    v.pending_action.action \in
        {"steal", "super_steal", "assassinate", "super_assassinate", "coup"}

canBlockForeignAid(v) ==
    v.pending_action.action = "foreign_aid" /\ ~isSameTeam(v) /\ actorKnown(v)

canBlockSteal(v) ==
    v.pending_action.action \in {"steal", "super_steal"} /\ isTarget(v)

canBlockAssassinate(v) ==
    v.pending_action.action \in {"assassinate", "super_assassinate"}
        /\ isTarget(v)

\* Fault: a super_coup counts as a coup that can be blocked.
canBlockCoup_AlsoSuperCoup(v) ==
    /\ v.mode = "super_team"
    /\ v.pending_action.action \in {"coup", "super_coup"}
    /\ isTarget(v)
    /\ You(v).num_cards >= 2

\* Fault: the view.mode === "super_team" condition is missing.
canBlockCoup_AnyMode(v) ==
    /\ v.pending_action.action = "coup"
    /\ isTarget(v)
    /\ You(v).num_cards >= 2

canBlockCoup(v) ==
    /\ v.mode = "super_team"
    /\ v.pending_action.action = "coup"
    /\ isTarget(v)
    /\ You(v).num_cards >= 2

\* Fault: the Block steal (Ambassador) button is missing.
blockButtons_NoAmbassador(v) ==
    (IF canBlockForeignAid(v) THEN {"block_foreign_aid"} ELSE {})
    \cup (IF canBlockSteal(v) THEN {"block_steal_captain"} ELSE {})
    \cup (IF canBlockAssassinate(v) THEN {"block_assassinate"} ELSE {})
    \cup (IF canBlockCoup(v) THEN {"block_coup"} ELSE {})

\* The buttons of the full block controls
blockButtons(v) ==
    (IF canBlockForeignAid(v) THEN {"block_foreign_aid"} ELSE {})
    \cup (IF canBlockSteal(v)
          THEN {"block_steal_captain", "block_steal_ambassador"} ELSE {})
    \cup (IF canBlockAssassinate(v) THEN {"block_assassinate"} ELSE {})
    \cup (IF canBlockCoup(v) THEN {"block_coup"} ELSE {})

\* What the block_window branch renders: nothing, one of the two info-only
\* notices, or the block controls with the Let it through button.
blockPanel(v) ==
    IF v.phase # "block_window" \/ v.pending_action = NullAction
    THEN [kind |-> "none", buttons |-> {}, pass |-> FALSE]
    ELSE IF isSameTeam(v) /\ actorKnown(v)
    THEN [kind |-> "info_same_team", buttons |-> {}, pass |-> FALSE]
    ELSE IF isTargetedAction(v) /\ ~isTarget(v)
    THEN [kind |-> "info_not_target", buttons |-> {}, pass |-> FALSE]
    ELSE [kind |-> "controls", buttons |-> blockButtons(v), pass |-> TRUE]

\* A click on a block button of the block controls
BlockClick ==
    /\ Mounted
    /\ CmdsInFlight < MaxCmds
    /\ \E block_type \in blockPanel(view).buttons : handleBlock(block_type)
    /\ choicePanels

\* A click on Let it through
NoBlockClick ==
    /\ Mounted
    /\ CmdsInFlight < MaxCmds
    /\ blockPanel(view).pass
    /\ handleNoBlock
    /\ choicePanels

(* ---------------- ActionPanel: challenge_window branch ---------------- *)

\* Fault: a dead viewer may challenge as well.
canChallenge_DeadToo(v) ==
    LET pa == v.pending_action
        pb == v.pending_block
        you == You(v)
    IN IF pb # NullBlock /\ pa # NullAction
       THEN /\ pb.blocker_id \in DOMAIN v.players
            /\ pa.actor_id \in DOMAIN v.players
            /\ pb.blocker_id # you.player_id
            /\ v.players[pb.blocker_id].team # you.team
       ELSE /\ pa # NullAction
            /\ pa.actor_id \in DOMAIN v.players
            /\ pa.actor_id # you.player_id
            /\ v.players[pa.actor_id].team # you.team

\* Fault: the challenge is always computed against the actor, also when a
\* block is pending.
canChallenge_AlwaysActor(v) ==
    LET pa == v.pending_action
        you == You(v)
    IN /\ pa # NullAction
       /\ pa.actor_id \in DOMAIN v.players
       /\ pa.actor_id # you.player_id
       /\ v.players[pa.actor_id].team # you.team
       /\ you.alive

\* canChallenge as the challenge_window branch computes it: against the
\* blocker when a block is pending (pb && pa), else against the actor.
canChallenge(v) ==
    LET pa == v.pending_action
        pb == v.pending_block
        you == You(v)
    IN IF pb # NullBlock /\ pa # NullAction
       THEN /\ pb.blocker_id \in DOMAIN v.players
            /\ pa.actor_id \in DOMAIN v.players
            /\ pb.blocker_id # you.player_id
            /\ v.players[pb.blocker_id].team # you.team
            /\ you.alive
       ELSE /\ pa # NullAction
            /\ pa.actor_id \in DOMAIN v.players
            /\ pa.actor_id # you.player_id
            /\ v.players[pa.actor_id].team # you.team
            /\ you.alive

\* What the challenge_window branch renders: nothing (no subject, or a
\* player of the subject unknown), the notice, or the notice with the
\* Challenge and Pass buttons.
challengePanel(v) ==
    LET pa == v.pending_action
        pb == v.pending_block
        known ==
            /\ pa # NullAction
            /\ pa.actor_id \in DOMAIN v.players
            /\ pb # NullBlock => pb.blocker_id \in DOMAIN v.players
    IN IF v.phase # "challenge_window" \/ ~known
       THEN [kind |-> "none", challenge |-> FALSE, pass |-> FALSE]
       ELSE IF ~canChallenge(v)
       THEN [kind |-> "info", challenge |-> FALSE, pass |-> FALSE]
       ELSE [kind |-> "controls", challenge |-> TRUE, pass |-> TRUE]

\* A click on Challenge
ChallengeClick ==
    /\ Mounted
    /\ CmdsInFlight < MaxCmds
    /\ challengePanel(view).challenge
    /\ handleChallenge
    /\ choicePanels

\* A click on Pass (no challenge)
NoChallengeClick ==
    /\ Mounted
    /\ CmdsInFlight < MaxCmds
    /\ challengePanel(view).pass
    /\ handleNoChallenge
    /\ choicePanels

(* ------------------------- mutating commands -------------------------- *)

\* the requests of the mutating commands
CommandKinds ==
    {"action", "block", "no_block", "challenge", "no_challenge",
     "finish_exchange", "choose_loss"}

\* the continuation of the handler that sent request r
commandSettle(r, res, v) ==
    CASE r.kind = "action" -> actionSettle(r, res, v)
      [] r.kind \in {"block", "no_block"} -> blockSettle(r, res, v)
      [] r.kind \in {"challenge", "no_challenge"} -> challengeSettle(r, res, v)
      [] r.kind \in {"finish_exchange", "choose_loss"} -> choiceSettle(r, res, v)
      [] OTHER -> FALSE

(* -------------------------- SwapChoicePanel --------------------------- *)

\* the elements of a list of indices
Indices(selected) == {selected[i] : i \in DOMAIN selected}

\* SwapChoicePanel: isYouChoosing
isYouChoosingSwap(v) == v.current_player = You(v).player_id

\* const cards = view.exchange_cards ?? []
swapCards(v) ==
    IF v.exchange_cards.isNull THEN <<>> ELSE v.exchange_cards.list

\* Fault: the `prev.length >= mustKeep` check is missing.
toggleIndex_NoLimit(prev, idx, mustKeep) ==
    IF idx \in Indices(prev)
    THEN SelectSeq(prev, LAMBDA x : x # idx)
    ELSE Append(prev, idx)

\* toggleIndex: the updater passed to setSelected
toggleIndex(prev, idx, mustKeep) ==
    IF idx \in Indices(prev)
    THEN SelectSeq(prev, LAMBDA x : x # idx)
    ELSE IF Len(prev) >= mustKeep THEN prev
    ELSE Append(prev, idx)

\* Fault: Confirm exchange is enabled as soon as a card is selected.
swapConfirmEnabled_AnySelection(v, selected) == Len(selected) > 0

\* Confirm exchange: disabled={selected.length !== mustKeep}
swapConfirmEnabled(v, selected) == Len(selected) = You(v).num_cards

\* What SwapChoicePanel renders: the wait notice, or the cards of the pool
\* as buttons (by index) with Confirm exchange.
swapPanel(v) ==
    IF v.phase # "swap_choice"
    THEN [kind |-> "none", cards |-> {}]
    ELSE IF ~isYouChoosingSwap(v)
    THEN [kind |-> "wait", cards |-> {}]
    ELSE [kind |-> "controls", cards |-> 0 .. Len(swapCards(v)) - 1]

\* A click on a card of the pool
SwapToggle ==
    /\ Mounted
    /\ \E idx \in swapPanel(view).cards :
          /\ swapSelected' = toggleIndex(swapSelected, idx, You(view).num_cards)
          /\ last' = [Event("toggleIndex", "call") EXCEPT !.payload = <<idx>>]
    /\ UNCHANGED <<playerToken, view, error, sessions, net, srvVer,
                   selectedTarget, lossSelected>>

\* A click on Confirm exchange
SwapConfirm ==
    /\ Mounted
    /\ CmdsInFlight < MaxCmds
    /\ swapPanel(view).kind = "controls"
    /\ swapConfirmEnabled(view, swapSelected)
    /\ handleFinishExchange(swapSelected)
    /\ choicePanels

(* -------------------------- LossChoicePanel --------------------------- *)

\* const lossPlayer = lossPlayerId ? view.players[lossPlayerId] : null
lossPlayerKnown(v) ==
    v.loss_choice_player_id # NULL
        /\ v.loss_choice_player_id \in DOMAIN v.players

\* Fault: the loss panel takes the current player for the chooser.
isYouChoosingLoss_CurrentPlayer(v) == v.current_player = You(v).player_id

\* LossChoicePanel: isYouChoosing
isYouChoosingLoss(v) == v.loss_choice_player_id = You(v).player_id

\* const cards = (view.loss_choice_cards ?? you.cards) ?? []
lossCards(v) ==
    IF ~v.loss_choice_cards.isNull THEN v.loss_choice_cards.list
    ELSE IF ~You(v).cards.isNull THEN You(v).cards.list
    ELSE <<>>

\* Fault: a clicked card is added to the cards already selected.
selectLoss_Accumulates(prev, idx) == Append(prev, idx)

\* setSelected(idx)
selectLoss(prev, idx) == <<idx>>

\* Confirm discard: disabled={selected === null}
lossConfirmEnabled(selected) == selected # <<>>

\* What LossChoicePanel renders: nothing, the wait notice, or the offered
\* cards as buttons (by index) with Confirm discard.
lossPanel(v) ==
    IF v.phase # "loss_choice" \/ ~lossPlayerKnown(v)
    THEN [kind |-> "none", cards |-> {}]
    ELSE IF ~isYouChoosingLoss(v)
    THEN [kind |-> "wait", cards |-> {}]
    ELSE [kind |-> "controls", cards |-> 0 .. Len(lossCards(v)) - 1]

\* A click on an offered card
LossSelect ==
    /\ Mounted
    /\ \E idx \in lossPanel(view).cards :
          /\ lossSelected' = selectLoss(lossSelected, idx)
          /\ last' = [Event("selectLoss", "call") EXCEPT !.payload = <<idx>>]
    /\ UNCHANGED <<playerToken, view, error, sessions, net, srvVer,
                   selectedTarget, swapSelected>>

\* A click on Confirm discard: selected !== null && onChooseLoss(selected)
LossConfirm ==
    /\ Mounted
    /\ CmdsInFlight < MaxCmds
    /\ lossPanel(view).kind = "controls"
    /\ lossConfirmEnabled(lossSelected)
    /\ handleChooseLoss(lossSelected[1])
    /\ choicePanels

(* ----------------------- narrative summary ---------------------------- *)

\* humanAction: the label of an action
humanAction(action) ==
    CASE action = "income" -> "income"
      [] action = "foreign_aid" -> "Foreign Aid"
      [] action = "tax" -> "Duke"
      [] action = "super_tax" -> "Super Duke"
      [] action = "steal" -> "Captain"
      [] action = "super_steal" -> "Super Captain"
      [] action = "exchange" -> "Ambassador"
      [] action = "super_exchange" -> "Super Ambassador"
      [] action = "assassinate" -> "Assassin"
      [] action = "super_assassinate" -> "Super Assassin"
      [] action = "coup" -> "Coup"
      [] action = "super_coup" -> "Super Coup"
      [] OTHER -> action

\* Fault: every target clause reads "on".
formatActionPhrase_AlwaysOn(base, action, targetName) ==
    IF targetName = NULL \/ targetName = "" THEN base
    ELSE base \o " on " \o targetName

\* formatActionPhrase: the label with the target clause, if a target name
\* is given (null and "" are falsy)
formatActionPhrase(base, action, targetName) ==
    IF targetName = NULL \/ targetName = "" THEN base
    ELSE IF action \in {"steal", "super_steal"}
    THEN base \o " from " \o targetName
    ELSE IF action \in {"assassinate", "super_assassinate", "coup", "super_coup"}
    THEN base \o " on " \o targetName
    ELSE base \o " on " \o targetName

\* pa.target_id && view.players[pa.target_id]
\*     ? view.players[pa.target_id].name : null
targetNameOf(v) ==
    IF v.pending_action.target_id # NULL
           /\ v.pending_action.target_id \in DOMAIN v.players
    THEN v.players[v.pending_action.target_id].name
    ELSE NULL

\* targetNameForViewer of the panel branches: "you" for the viewer
targetNameForViewer(v) ==
    IF targetNameOf(v) # NULL /\ v.pending_action.target_id = You(v).player_id
    THEN "you"
    ELSE targetNameOf(v)

\* the phrase of the summary, for a pending action
summaryPhrase(v) ==
    formatActionPhrase(humanAction(v.pending_action.action),
                       v.pending_action.action, targetNameOf(v))

\* the phrase of the block_window and challenge_window panels
panelPhrase(v) ==
    formatActionPhrase(humanAction(v.pending_action.action),
                       v.pending_action.action, targetNameForViewer(v))

\* Fault: a pending block is not looked at.
buildCurrentActionSummary_IgnoresBlock(v) ==
    LET pa == v.pending_action
    IN IF pa # NullAction
       THEN IF pa.actor_id \notin DOMAIN v.players THEN NULL
            ELSE v.players[pa.actor_id].name \o " attempts " \o summaryPhrase(v)
       ELSE NULL

\* buildCurrentActionSummary
buildCurrentActionSummary(v) ==
    LET pa == v.pending_action
        pb == v.pending_block
    IN IF pb # NullBlock /\ pa # NullAction
       THEN IF pb.blocker_id \notin DOMAIN v.players
                   \/ pa.actor_id \notin DOMAIN v.players
            THEN NULL
            ELSE v.players[pb.blocker_id].name \o " attempts to block "
                     \o v.players[pa.actor_id].name \o "'s "
                     \o summaryPhrase(v)
       ELSE IF pa # NullAction
       THEN IF pa.actor_id \notin DOMAIN v.players THEN NULL
            ELSE v.players[pa.actor_id].name \o " attempts " \o summaryPhrase(v)
       ELSE NULL

\* GameLayout renders the narrative of the held view, and ActionPanel the
\* phrase of its pending action.
renderSummary ==
    /\ Mounted
    /\ last' = [Event("summary", "settle") EXCEPT
                    !.ok = TRUE,
                    !.payload =
                        <<buildCurrentActionSummary(view),
                          IF view.pending_action = NullAction THEN NULL
                          ELSE panelPhrase(view)>>]
    /\ UNCHANGED <<playerToken, view, error, sessions, net, srvVer,
                   selectedTarget>>
    /\ choicePanels

(* ------------------------ GameLayout: seats --------------------------- *)

\* Array.prototype.indexOf, 0-based, -1 when x is not an element
indexOf(arr, x) ==
    IF \E i \in DOMAIN arr : arr[i] = x
    THEN CHOOSE i \in 0 .. Len(arr) - 1 :
             /\ arr[i + 1] = x
             /\ \A j \in 0 .. i - 1 : arr[j + 1] # x
    ELSE -1

\* Array.prototype.slice(from, to) for 0 <= from <= to <= length
slice(arr, from, to) == SubSeq(arr, from + 1, to)

\* Fault: the rotation moves the first seat to the end, wherever the
\* viewer sits.
rotatedIds_OneStep(orderedIds, youId) ==
    LET youIndex == indexOf(orderedIds, youId)
    IN IF youIndex = -1
       THEN orderedIds
       ELSE slice(orderedIds, 1, Len(orderedIds)) \o slice(orderedIds, 0, 1)

\* Fault: the rotation starts at the seat after the viewer's.
rotatedIds_FromNext(orderedIds, youId) ==
    LET youIndex == indexOf(orderedIds, youId)
    IN IF youIndex = -1
       THEN orderedIds
       ELSE slice(orderedIds, youIndex + 1, Len(orderedIds))
                \o slice(orderedIds, 0, youIndex + 1)

\* rotatedIds: the turn order rotated so that the viewer comes first
rotatedIds(orderedIds, youId) ==
    LET youIndex == indexOf(orderedIds, youId)
    IN IF youIndex = -1
       THEN orderedIds
       ELSE slice(orderedIds, youIndex, Len(orderedIds))
                \o slice(orderedIds, 0, youIndex)

\* const you = view.players[view.you] is undefined when the view has no
\* player of that id; `you.player_id` then throws a TypeError.
youUndefined(v) == v.you \notin DOMAIN v.players

\* seats, by player id: rotatedIds.map(id => view.players[id]).filter(Boolean)
seats(v) ==
    SelectSeq(rotatedIds(v.turn_order, You(v).player_id),
              LAMBDA id : id \in DOMAIN v.players)

\* Does rendering the table throw?  `you.player_id` (rotation) throws for
\* an undefined `you`; in action_selection the panel reads
\* view.players[selectedTarget].name of a selected target unguarded.
tableThrows(v, sel) ==
    \/ youUndefined(v)
    \/ v.phase = "action_selection" /\ sel # NULL /\ sel \notin DOMAIN v.players

\* GameLayout renders the held view: the seats are computed, or the
\* render throws.
renderSeats ==
    /\ Mounted
    /\ last' = IF youUndefined(view)
               THEN [Event("render", "settle") EXCEPT !.ok = FALSE]
               ELSE [Event("render", "settle") EXCEPT
                        !.ok = TRUE, !.payload = seats(view)]
    /\ UNCHANGED <<playerToken, view, error, sessions, net, srvVer,
                   selectedTarget>>
    /\ choicePanels

\* Fault: a click always selects, a second click does not deselect.
handleSeatClick_NoToggle(prev, player, you) ==
    IF ~player.alive THEN prev
    ELSE IF player.team = you.team THEN prev
    ELSE IF player.player_id = you.player_id THEN prev
    ELSE player.player_id

\* Fault: the `if (!player.alive) return` is missing.
handleSeatClick_DeadSelectable(prev, player, you) ==
    IF player.team = you.team THEN prev
    ELSE IF player.player_id = you.player_id THEN prev
    ELSE IF prev = player.player_id THEN NULL ELSE player.player_id

\* handleSeatClick: the selection after a click on player's seat
handleSeatClick(prev, player, you) ==
    IF ~player.alive THEN prev
    ELSE IF player.team = you.team THEN prev
    ELSE IF player.player_id = you.player_id THEN prev
    ELSE IF prev = player.player_id THEN NULL ELSE player.player_id

\* GameLayout and its ActionPanel render the held view with the selection
\* held, or the render throws.
renderTable ==
    /\ Mounted
    /\ last' = [Event("renderTable", "settle") EXCEPT
                    !.ok = ~tableThrows(view, selectedTarget)]
    /\ UNCHANGED <<playerToken, view, error, sessions, net, srvVer,
                   selectedTarget>>
    /\ choicePanels

\* A click on a seat of the table; the seats are buttons in every phase.
SeatClick ==
    /\ Mounted
    /\ ~tableThrows(view, selectedTarget)
    /\ \E p \in SeatIds(view) :
          /\ selectedTarget' = handleSeatClick(selectedTarget, view.players[p], You(view))
          /\ last' = [Event("seatClick", "call") EXCEPT !.seat = p]
    /\ UNCHANGED <<playerToken, view, error, sessions, net, srvVer>>
    /\ choicePanels

\* Fault: setSelectedTarget(null) is missing after onAction.
selectOrUseTarget_KeepsTarget(action) ==
    IF action \in targetRequiredActions
    THEN IF selectedTarget = NULL
         THEN UNCHANGED vars
         ELSE /\ handleAction(action, selectedTarget)
              /\ selectedTarget' = selectedTarget
    ELSE /\ handleAction(action, UNDEFINED)
         /\ selectedTarget' = selectedTarget

\* Fault: the selected target is passed along with every action.
selectOrUseTarget_AlwaysTarget(action) ==
    IF action \in targetRequiredActions
    THEN IF selectedTarget = NULL
         THEN UNCHANGED vars
         ELSE /\ handleAction(action, selectedTarget)
              /\ selectedTarget' = NULL
    ELSE /\ handleAction(action, selectedTarget)
         /\ selectedTarget' = selectedTarget

\* selectOrUseTarget: onAction is App's handleAction.
selectOrUseTarget(action) ==
    IF action \in targetRequiredActions
    THEN IF selectedTarget = NULL
         THEN UNCHANGED vars
         ELSE /\ handleAction(action, selectedTarget)
              /\ selectedTarget' = NULL
    ELSE /\ handleAction(action, UNDEFINED)
         /\ selectedTarget' = selectedTarget

\* A click on an enabled button of the action_selection panel
ActionClick ==
    /\ Mounted
    /\ CmdsInFlight < MaxCmds
    /\ \E action \in Actions :
          /\ actionEnabled(view, selectedTarget, action)
          /\ selectOrUseTarget(action)
    /\ choicePanels

(* --------------------------- environment ------------------------------ *)

\* The game moves on at the server (any player's command, ours included).
ServerStep ==
    /\ srvVer < MaxVer
    /\ srvVer' = srvVer + 1
    /\ UNCHANGED <<playerToken, view, error, sessions, net, selectedTarget, last>>
    /\ choicePanels

\* The landing form and the polling effect
Next ==
    \/ handleCreateGame
    \/ handleJoinGame
    \/ LoginSettle
    \/ FetchStateSettle
    \/ PollSettle
    \/ TimerFire
    \/ ServerStep

Spec == Init /\ [][Next]_vars

\* The table, once the first snapshot of a created game has arrived: the
\* landing form is gone for good, the first poll session is running.
InitTable ==
    /\ playerToken = "t1"
    /\ view = GameView(0, "lobby", NULL, TRUE)
    /\ error = NULL
    /\ sessions = <<[token |-> "t1", cancel |-> FALSE, timers |-> <<>>]>>
    /\ net = SetToBag({[kind |-> "poll", sid |-> 1, sentVer |-> 0]})
    /\ srvVer = 0
    /\ selectedTarget = NULL
    /\ last = [Event("state", "settle") EXCEPT !.ok = TRUE]
    /\ swapSelected = <<>>
    /\ lossSelected = <<>>

NextTable ==
    \/ handleStartGame
    \/ StartGameSettle
    \/ FetchStateSettle
    \/ ActionClick
    \/ ActionSettle
    \/ SeatClick
    \/ PollSettle
    \/ TimerFire
    \/ ServerStep

SpecTable == InitTable /\ [][NextTable]_vars

(* ------------------------- the panel, per view ------------------------ *)

\* coins the viewer can hold, around the costs 3, 7 and 12
CoinValues == {0, 2, 3, 6, 7, 11, 12}

\* The players of a view seen from p1: p1 with the given coins and cards
\* (dead without cards), p2 with the given coins, the others without coins.
PanelPlayers(ids, youCoins, youCards, p2Coins) ==
    [p \in ids |->
        IF p = "p1"
        THEN [PublicPlayer(p, youCards > 0, youCoins) EXCEPT
                 !.num_cards = youCards,
                 !.cards = CardList(SubSeq(Roles, 1, youCards))]
        ELSE PublicPlayer(p, TRUE, IF p = "p2" THEN p2Coins ELSE 0)]

TableView(ver, phase, mode, n, cur, players, act) ==
    [ver |-> ver, phase |-> phase, mode |-> mode, you |-> "p1",
     current_player |-> cur, turn_order |-> SubSeq(AllIds, 1, n),
     players |-> players,
     pending_action |-> act, pending_block |-> NullBlock,
     winner_team |-> NULL, exchange_cards |-> NullCards,
     loss_choice_player_id |-> NULL, loss_choice_cards |-> NullCards]

\* The actions a server can hold as pending in a game of the given mode:
\* a target exactly for the targeted actions, never the actor itself.
PendingActions(mode) ==
    {a \in [actor_id : Ids, action : Actions, target_id : Ids \cup {NULL}] :
        /\ a.action \in targetRequiredActions <=> a.target_id # NULL
        /\ a.target_id # a.actor_id
        /\ a.action \in SuperActions => mode = "super_team"}

\* lobbies of 1 .. MaxPlayers players
LobbyViews ==
    {TableView(0, "lobby", mode, n, NULL,
               PanelPlayers({AllIds[i] : i \in 1 .. n}, 2, 2, 2), NullAction) :
        mode \in Modes, n \in 1 .. MaxPlayers}

\* p1's or p2's turn in a game of four
ActionViews ==
    {TableView(1, "action_selection", x.mode, 4, x.cur,
               PanelPlayers(Ids, x.coins, x.cards, x.p2Coins), NullAction) :
        x \in [mode : Modes, cur : {"p1", "p2"}, coins : CoinValues,
               cards : {1, 2}, p2Coins : {0, 2}]}

\* a block awaited in a game of four; a dead viewer neither acts nor is
\* targeted
BlockViews ==
    UNION {{TableView(1, "block_window", mode, 4, a.actor_id,
                      PanelPlayers(Ids, 2, cards, 2), a) :
               a \in {b \in PendingActions(mode) :
                         cards = 0 => "p1" \notin {b.actor_id, b.target_id}}} :
           mode \in Modes, cards \in 0 .. 2}

\* the blocks that can be pending against action a
PendingBlocks(a) ==
    {b \in [blocker_id : Ids \ {a.actor_id}, block_type : BlockTypes] :
        \/ a.action = "foreign_aid" /\ b.block_type = "block_foreign_aid"
        \/ a.action = "steal" /\ b.block_type \in
              {"block_steal_captain", "block_steal_ambassador"}
        \/ a.action = "assassinate" /\ b.block_type = "block_assassinate"}

\* a challenge awaited in a game of four, of an action or of a block of
\* it; a dead viewer is neither actor, target nor blocker
ChallengeViews ==
    UNION {{[TableView(1, "challenge_window", "normal_team", 4, a.actor_id,
                       PanelPlayers(Ids, 2, cards, 2), a)
                EXCEPT !.pending_block = b] :
               b \in {c \in PendingBlocks(a) \cup {NullBlock} :
                         cards = 0 => c.blocker_id # "p1"}} :
           a \in {c \in PendingActions("normal_team") :
                     c.action \in {"tax", "foreign_aid", "steal", "assassinate"}},
           cards \in {0, 2}}

\* an exchange in a game of four: the chooser is offered a pool, the
\* others are not
SwapViews ==
    UNION {{[TableView(1, "swap_choice", "normal_team", 4, cur,
                       PanelPlayers(Ids, 2, cards, 2), NullAction)
                EXCEPT !.exchange_cards = pool] :
               pool \in IF cur = "p1"
                        THEN {NullCards} \cup
                             {CardList(SubSeq(Roles, 1, n)) : n \in 2 .. MaxPool}
                        ELSE {NullCards}} :
           cur \in {"p1", "p2"}, cards \in {1, 2}}

\* a loss awaited in a game of four: p1 or p2 chooses, or nobody is named;
\* the cards to choose from are those sent with the view or the viewer's own
LossViews ==
    UNION {{[TableView(1, "loss_choice", "normal_team", 4, cur,
                       PanelPlayers(Ids, 2, cards, 2), NullAction)
                EXCEPT !.loss_choice_player_id = loser,
                       !.loss_choice_cards = offered] :
               offered \in IF loser = "p1"
                           THEN {NullCards, CardList(SubSeq(Roles, 1, cards))}
                           ELSE {NullCards}} :
           cur \in {"p1", "p2"}, loser \in {"p1", "p2", NULL},
           cards \in {1, 2}}

\* the game is over: the players of the losing team are dead; the viewer
\* (team A) is dead, or alive if team A has won
GameOverViews ==
    UNION {{[TableView(1, "game_over", mode, 4, NULL,
                       [p \in Ids |->
                           IF p = "p1"
                           THEN PanelPlayers(Ids, 2, cards, 0)[p]
                           ELSE PublicPlayer(p, TeamOf(p) = team, 0)],
                       NullAction)
                EXCEPT !.winner_team = team] :
               cards \in IF team = "A" THEN {0, 2} ELSE {0}} :
           mode \in Modes, team \in {"A", "B"}}

PanelViews ==
    LobbyViews \cup ActionViews \cup BlockViews \cup ChallengeViews
        \cup SwapViews \cup LossViews \cup GameOverViews

\* The table between two polls, holding any view the server can have
\* answered with.
InitPanel ==
    /\ playerToken = "t1"
    /\ view \in PanelViews
    /\ error = NULL
    /\ sessions = <<[token |-> "t1", cancel |-> FALSE, timers |-> <<POLL_MS>>]>>
    /\ net = EmptyBag
    /\ srvVer = view.ver
    /\ selectedTarget = NULL
    /\ last = [Event("loop", "settle") EXCEPT !.sid = 1, !.ok = TRUE]
    /\ swapSelected = <<>>
    /\ lossSelected = <<>>

\* The controls of the panel and the handlers behind them
NextPanel ==
    \/ handleStartGame
    \/ StartGameSettle
    \/ FetchStateSettle
    \/ SeatClick
    \/ ActionClick
    \/ ActionSettle
    \/ BlockClick
    \/ NoBlockClick
    \/ BlockSettle
    \/ ChallengeClick
    \/ NoChallengeClick
    \/ ChallengeSettle
    \/ SwapToggle
    \/ SwapConfirm
    \/ LossSelect
    \/ LossConfirm
    \/ ChoiceSettle

SpecPanel == InitPanel /\ [][NextPanel]_vars

(* ------------------------ the seats of the table ---------------------- *)

\* the reverse of a sequence
Reverse(arr) == [i \in DOMAIN arr |-> arr[Len(arr) + 1 - i]]

\* Views of a table of up to MaxPlayers seats, in either order, with p2 and
\* p3 alive or dead, seen by one of the seated players or by a viewer who
\* is not in the turn order (p8), with or without a player record.
SeatViews ==
    UNION {{[TableView(1, "action_selection", "normal_team", n, "p1",
                       [p \in {AllIds[i] : i \in 1 .. n}
                                 \cup (IF listed THEN {you} ELSE {}) |->
                           PublicPlayer(p, p \notin dead, 2)],
                       NullAction)
                EXCEPT !.you = you, !.turn_order = order] :
               you \in {AllIds[i] : i \in 1 .. n} \cup {"p8"},
               order \in {SubSeq(AllIds, 1, n), Reverse(SubSeq(AllIds, 1, n))},
               dead \in SUBSET ({"p2", "p3"} \cap {AllIds[i] : i \in 1 .. n})} :
           n \in 1 .. MaxPlayers, listed \in BOOLEAN}

InitSeats ==
    /\ playerToken = "t1"
    /\ view \in SeatViews
    /\ error = NULL
    /\ sessions = <<[token |-> "t1", cancel |-> FALSE, timers |-> <<POLL_MS>>]>>
    /\ net = EmptyBag
    /\ srvVer = view.ver
    /\ selectedTarget = NULL
    /\ last = [Event("loop", "settle") EXCEPT !.sid = 1, !.ok = TRUE]
    /\ swapSelected = <<>>
    /\ lossSelected = <<>>

\* The table is rendered.
NextSeats == renderSeats

SpecSeats == InitSeats /\ [][NextSeats]_vars

(* ------------------- views with dangling references ------------------ *)

\* an id that is no key of players
Unknown == "p8"

\* Views of a game of four (or, in action_selection, also of its first two
\* players only) in which the viewer, the actor, the target, the blocker or
\* the loss-choice subject may be an id that is no key of players.
DanglingViews ==
    LET base(phase, n, you, act) ==
            [TableView(1, phase, "normal_team", n, "p1",
                       PanelPlayers({AllIds[i] : i \in 1 .. n}, 2, 2, 2), act)
                EXCEPT !.you = you]
        acts == {[actor_id |-> a, action |-> x, target_id |-> t] :
                    a \in {"p2", Unknown},
                    x \in {"foreign_aid", "steal"},
                    t \in {NULL, "p1", Unknown}}
        wellFormed(a) == (a.action = "steal") = (a.target_id # NULL)
    IN {base("action_selection", n, you, NullAction) :
            n \in {2, 4}, you \in {"p1", Unknown}}
       \cup {base("block_window", 4, you, a) :
                you \in {"p1", Unknown}, a \in {x \in acts : wellFormed(x)}}
       \cup {base("challenge_window", 4, you, a) :
                you \in {"p1", Unknown}, a \in {x \in acts : wellFormed(x)}}
       \cup {[base("challenge_window", 4, you, a) EXCEPT
                  !.pending_block = [blocker_id |-> k,
                                     block_type |-> "block_foreign_aid"]] :
                you \in {"p1", Unknown},
                a \in {x \in acts : x.action = "foreign_aid" /\ wellFormed(x)},
                k \in {"p3", Unknown}}
       \cup {[base("loss_choice", 4, you, NullAction)
                 EXCEPT !.loss_choice_player_id = loser] :
                you \in {"p1", Unknown}, loser \in {"p1", Unknown}}

\* Is some id that the view or the selection refers to no key of players?
Dangling(v, sel) ==
    LET refs == {v.you, v.pending_action.actor_id, v.pending_action.target_id,
                 v.pending_block.blocker_id, v.loss_choice_player_id, sel}
    IN (refs \ {NULL}) \ DOMAIN v.players # {}

InitDangling ==
    /\ playerToken = "t1"
    /\ view \in DanglingViews
    /\ error = NULL
    /\ sessions = <<[token |-> "t1", cancel |-> FALSE, timers |-> <<POLL_MS>>]>>
    /\ net = EmptyBag
    /\ srvVer = view.ver
    /\ selectedTarget = NULL
    /\ last = [Event("loop", "settle") EXCEPT !.sid = 1, !.ok = TRUE]
    /\ swapSelected = <<>>
    /\ lossSelected = <<>>

\* A poll cycle of the running session: the timer fires, the fetch succeeds,
\* its view replaces the held one and the next timer is armed.
pollDelivers ==
    /\ Mounted
    /\ \E v \in DanglingViews : view' = v
    /\ last' = [Event("loop", "settle") EXCEPT !.sid = 1, !.ok = TRUE]
    /\ UNCHANGED <<playerToken, error, sessions, net, srvVer, selectedTarget>>
    /\ choicePanels

\* The table is rendered and clicked while polls replace the view.
NextDangling ==
    \/ renderTable
    \/ SeatClick
    \/ pollDelivers

SpecDangling == InitDangling /\ [][NextDangling]_vars

(* ----------------------- views with a narrative ----------------------- *)

\* Views with nothing pending, with a pending action, with a pending
\* action and a block of it, and with a pending block alone.
SummaryViews ==
    ActionViews \cup BlockViews \cup ChallengeViews
        \cup {[TableView(1, "challenge_window", "normal_team", 4, "p2",
                         PanelPlayers(Ids, 2, 2, 2), NullAction)
                  EXCEPT !.pending_block = b] :
                 b \in [blocker_id : Ids, block_type : BlockTypes]}

InitSummary ==
    /\ playerToken = "t1"
    /\ view \in SummaryViews
    /\ error = NULL
    /\ sessions = <<[token |-> "t1", cancel |-> FALSE, timers |-> <<POLL_MS>>]>>
    /\ net = EmptyBag
    /\ srvVer = view.ver
    /\ selectedTarget = NULL
    /\ last = [Event("loop", "settle") EXCEPT !.sid = 1, !.ok = TRUE]
    /\ swapSelected = <<>>
    /\ lossSelected = <<>>

\* The narrative is rendered.
NextSummary == renderSummary

SpecSummary == InitSummary /\ [][NextSummary]_vars

(* ------------------------------ fairness ------------------------------ *)

\* Timers fire and requests settle, for every poll session.
SpecFair ==
    /\ Spec
    /\ \A sid \in 1 .. MaxSessions :
          WF_vars(timerFire(sid)) /\ WF_vars(pollSettle(sid))

(* ------------------------------ properties ---------------------------- *)

Stopped(sid) == sessions[sid].cancel

\* This step delivers the response of a poll request of session sid.
Delivered(sid) ==
    \E r \in BagToSet(net) :
        r.kind = "poll" /\ r.sid = sid /\ net' = Remove(net, r)

\* C1: a poll response delivered after its session was stopped is never
\* committed: the held view is the same before and after the delivery.
C1_StaleResponseDiscarded ==
    [][\A sid \in DOMAIN sessions :
          Stopped(sid) /\ Delivered(sid) => view' = view]_vars

\* A successful response has just been delivered to a stopped session.
C1_Witness ==
    /\ last.op = "loop" /\ last.step = "settle" /\ last.ok
    /\ Stopped(last.sid)
    /\ view # NullView

\* C2: a poll session has at most one fetch outstanding, and none while a
\* timer of it is armed: the next fetch starts only after the previous one
\* has settled.
C2_OneFetchPerSession ==
    \A sid \in DOMAIN sessions :
        /\ InFlight(sid) <= 1
        /\ InFlight(sid) + Len(sessions[sid].timers) <= 1

\* A timer has just fired and the session's next fetch is outstanding.
C2_Witness ==
    /\ last.op = "loop" /\ last.step = "call"
    /\ InFlight(last.sid) = 1
    /\ sessions[last.sid].timers = <<>>

\* C3 (as claimed): once a session is stopped it starts no new fetch and
\* arms no new timer, also when a timer was pending at stop().
C3_NoSchedulingAfterStop ==
    [][\A sid \in DOMAIN sessions :
          Stopped(sid) =>
             /\ InFlightIn(net', sid) <= InFlightIn(net, sid)
             /\ Len(sessions'[sid].timers) <= Len(sessions[sid].timers)]_vars

\* C4: a failed poll fetch leaves the error banner and the held view as
\* they were and, unless the session is stopped, arms the next fetch after
\* the same interval POLL_MS.
C4_PollFailureSilent ==
    [][\A sid \in DOMAIN sessions :
          (Delivered(sid) /\ last'.op = "loop" /\ last'.step = "settle"
              /\ ~last'.ok)
          => /\ error' = error
             /\ view' = view
             /\ ~Stopped(sid) =>
                   sessions'[sid].timers = Append(sessions[sid].timers, POLL_MS)
             /\ Stopped(sid) => sessions'[sid].timers = sessions[sid].timers]_vars

\* A poll of a running session has just failed while a banner-free view is
\* held: the retry is armed.
C4_Witness ==
    /\ last.op = "loop" /\ last.step = "settle" /\ ~last.ok
    /\ ~Stopped(last.sid)
    /\ sessions[last.sid].timers = <<POLL_MS>>
    /\ view # NullView
    /\ error = NULL

\* C5: while a session is not stopped, every settled fetch of it is
\* eventually followed by another fetch of it (timers fire, requests settle).
C5_NeverGivesUp ==
    \A sid \in 1 .. MaxSessions :
        (sid \in DOMAIN sessions /\ ~Stopped(sid) /\ InFlight(sid) = 0)
            ~> (sid \in DOMAIN sessions /\ (Stopped(sid) \/ InFlight(sid) = 1))

\* A running session has fetched again after a fetch of it failed to
\* deliver a view (none is held yet).
C5_Witness ==
    /\ last.op = "loop" /\ last.step = "call"
    /\ ~Stopped(last.sid)
    /\ InFlight(last.sid) = 1
    /\ view = NullView
    /\ CmdsInFlight = 0

\* C6: at most one poll session is running at any time, and it is the
\* session of the current player token.
C6_OneActiveSession ==
    /\ \A i, j \in DOMAIN sessions :
          ~Stopped(i) /\ ~Stopped(j) => i = j
    /\ \A i \in DOMAIN sessions : ~Stopped(i) => sessions[i].token = playerToken

\* The token has changed: the first session is stopped, the second runs.
C6_Witness ==
    /\ Len(sessions) >= 2
    /\ Stopped(1) /\ ~Stopped(2)
    /\ sessions[1].token # sessions[2].token

\* C7 (as claimed): a target is selected only while the held view's phase
\* is action_selection.
C7_SelectionOnlyInActionSelection ==
    Mounted /\ selectedTarget # NULL => view.phase = "action_selection"

\* A seat the viewer may target: alive, on the other team, not the viewer.
Eligible(v, p) ==
    /\ v.players[p].alive
    /\ v.players[p].team # You(v).team
    /\ p # v.you

\* C8: a click on an eligible seat toggles: it selects the seat, deselects
\* it when it was the selection, and replaces any other selection.
C8_SeatClickToggles ==
    [][\A p \in Ids :
          (SeatClick /\ last'.seat = p /\ Eligible(view, p))
          => /\ selectedTarget = NULL => selectedTarget' = p
             /\ selectedTarget = p => selectedTarget' = NULL
             /\ selectedTarget \notin {NULL, p} => selectedTarget' = p]_vars

\* An eligible seat has just been clicked and nothing is selected: the
\* click deselected it.
C8_Witness ==
    /\ Mounted
    /\ last.op = "seatClick" /\ last.seat = "p2"
    /\ Eligible(view, "p2")
    /\ selectedTarget = NULL

\* C9: a click on the viewer's own seat, a teammate's seat or a dead
\* player's seat leaves the selection as it was.
C9_IneligibleClickIgnored ==
    [][\A p \in Ids :
          (SeatClick /\ last'.seat = p /\ ~Eligible(view, p))
          => selectedTarget' = selectedTarget]_vars

\* The seat of dead p2 has just been clicked while p4 was selected.
C9_Witness ==
    /\ Mounted
    /\ last.op = "seatClick" /\ last.seat = "p2"
    /\ ~view.players["p2"].alive
    /\ selectedTarget = "p4"

\* C10: the dispatch of a target-requiring action happens only with a
\* target selected, puts exactly that target into the command sent, and
\* resets the selection.
C10_TargetedDispatch ==
    [][\A a \in targetRequiredActions :
          (ActionClick /\ last'.op = "action" /\ last'.step = "call"
              /\ last'.action = a)
          => /\ selectedTarget # NULL
             /\ last'.target_id = selectedTarget
             /\ net' = Add(net, Request("action", 0))
             /\ selectedTarget' = NULL]_vars

\* A coup on p2 has just been sent and nothing is selected any more.
C10_Witness ==
    /\ last.op = "action" /\ last.step = "call"
    /\ last.action = "coup" /\ last.target_id = "p2"
    /\ selectedTarget = NULL

\* C11 (as claimed): the start-game control can be used only when the view
\* has 4 or 6 players.
C11_StartOnlyAtValidSize ==
    [][handleStartGame => playerCount(view) \in {4, 6}]_vars

\* C12: an action control of action_selection is enabled only in phase
\* action_selection with the viewer as current player; on another player's
\* turn all twelve are disabled.
C12_ActionsOnlyOnOwnTurn ==
    Mounted =>
        \A a \in Actions :
            actionEnabled(view, selectedTarget, a)
                => view.phase = "action_selection"
                   /\ view.current_player = view.you

\* It is p2's turn: the viewer has 12 coins and has selected p2, and every
\* action control is disabled.
C12_Witness ==
    /\ Mounted
    /\ view.phase = "action_selection"
    /\ view.current_player = "p2"
    /\ view.mode = "super_team"
    /\ You(view).coins = 12 /\ You(view).num_cards = 2
    /\ selectedTarget = "p2"
    /\ last.op = "seatClick"
    /\ \A a \in Actions : ~actionEnabled(view, selectedTarget, a)

\* C13: coup is enabled only with coins >= 7, assassinate and
\* super_assassinate only with coins >= 3, super_coup only with coins >= 12;
\* with the viewer acting and an alive enemy selected, coup is enabled
\* exactly from 7 coins on.
C13_CoinCostGates ==
    Mounted =>
        LET c == You(view).coins
            en(a) == actionEnabled(view, selectedTarget, a)
        IN /\ en("coup") => c >= 7
           /\ en("assassinate") => c >= 3
           /\ en("super_assassinate") => c >= 3
           /\ en("super_coup") => c >= 12
           /\ (canAct(view) /\ selectedTarget # NULL
                 /\ Eligible(view, selectedTarget))
              => (en("coup") <=> c >= 7)

\* In normal mode a viewer with exactly 7 coins has just dispatched a coup.
C13_Witness ==
    /\ last.op = "action" /\ last.step = "call" /\ last.action = "coup"
    /\ view.mode = "normal_team"
    /\ playerCount(view) = 4
    /\ You(view).coins = 7

\* C14: the target-requiring actions are enabled only with a target
\* selected, steal and super_steal only if that target has coins in the
\* held view; income, foreign_aid, tax and exchange need no selection.
C14_TargetGates ==
    Mounted =>
        LET en(a) == actionEnabled(view, selectedTarget, a)
        IN /\ \A a \in targetRequiredActions : en(a) => selectedTarget # NULL
           /\ \A a \in {"steal", "super_steal"} :
                 en(a) => /\ selectedTarget \in DOMAIN view.players
                          /\ view.players[selectedTarget].coins > 0
           /\ canAct(view) =>
                 \A a \in {"income", "foreign_aid", "tax", "exchange"} : en(a)

\* The viewer acts with p4 selected, who has no coins: assassinate is
\* enabled, steal is not.
C14_Witness ==
    /\ Mounted
    /\ canAct(view)
    /\ selectedTarget = "p4"
    /\ view.players["p4"].coins = 0
    /\ actionEnabled(view, selectedTarget, "assassinate")
    /\ ~actionEnabled(view, selectedTarget, "steal")

\* C15: super_tax, super_exchange, super_assassinate and super_steal are
\* enabled only in super mode with num_cards >= 2; super_coup is enabled in
\* super mode whatever the card count; in normal mode no super action is
\* offered.
C15_SuperGates ==
    Mounted =>
        LET en(a) == actionEnabled(view, selectedTarget, a)
        IN /\ \A a \in SuperActions \ {"super_coup"} :
                 en(a) => view.mode = "super_team" /\ You(view).num_cards >= 2
           /\ (view.mode = "super_team" /\ canAct(view)
                 /\ You(view).coins >= 12 /\ selectedTarget # NULL)
              => en("super_coup")
           /\ view.mode # "super_team" =>
                 \A a \in SuperActions : ~actionOffered(view, a) /\ ~en(a)

\* A viewer with one card has just dispatched a super_coup.
C15_Witness ==
    /\ last.op = "action" /\ last.step = "call" /\ last.action = "super_coup"
    /\ view.mode = "super_team"
    /\ You(view).num_cards = 1

\* A block is awaited and the held view names the action.
BlockAwaited ==
    Mounted /\ view.phase = "block_window" /\ view.pending_action # NullAction

\* C16 (as claimed): in block_window the block buttons offered are those of
\* the rule table: block_foreign_aid to a viewer not on the actor's team,
\* the steal and assassinate blocks to the target, block_coup to the target
\* of a coup in super mode holding >= 2 cards; with them the pass control.
C16_BlockButtonsAsClaimed ==
    BlockAwaited =>
        LET act == view.pending_action
            you == You(view)
            target == act.target_id = you.player_id
            table ==
                (IF act.action = "foreign_aid"
                      /\ view.players[act.actor_id].team # you.team
                 THEN {"block_foreign_aid"} ELSE {})
                \cup (IF act.action \in {"steal", "super_steal"} /\ target
                      THEN {"block_steal_captain", "block_steal_ambassador"}
                      ELSE {})
                \cup (IF act.action \in {"assassinate", "super_assassinate"}
                         /\ target
                      THEN {"block_assassinate"} ELSE {})
                \cup (IF act.action = "coup" /\ view.mode = "super_team"
                         /\ target /\ you.num_cards >= 2
                      THEN {"block_coup"} ELSE {})
        IN /\ blockPanel(view).buttons = table
           /\ table # {} => blockPanel(view).pass

\* C16 (amended): the same table, each row for a viewer who is not on the
\* actor's team; a viewer on the actor's team is offered no block button,
\* also as the target.
C16_BlockButtonsRuleTable ==
    BlockAwaited =>
        LET act == view.pending_action
            you == You(view)
            opponent == view.players[act.actor_id].team # you.team
            target == opponent /\ act.target_id = you.player_id
            table ==
                (IF act.action = "foreign_aid" /\ opponent
                 THEN {"block_foreign_aid"} ELSE {})
                \cup (IF act.action \in {"steal", "super_steal"} /\ target
                      THEN {"block_steal_captain", "block_steal_ambassador"}
                      ELSE {})
                \cup (IF act.action \in {"assassinate", "super_assassinate"}
                         /\ target
                      THEN {"block_assassinate"} ELSE {})
                \cup (IF act.action = "coup" /\ view.mode = "super_team"
                         /\ target /\ you.num_cards >= 2
                      THEN {"block_coup"} ELSE {})
        IN /\ blockPanel(view).buttons = table
           /\ table # {} => blockPanel(view).pass

\* The target of a super_steal has just clicked Block steal (Ambassador).
C16_Witness ==
    /\ BlockAwaited
    /\ last.op = "block" /\ last.step = "call"
    /\ last.action = "block_steal_ambassador"
    /\ view.pending_action.action = "super_steal"
    /\ isTarget(view)

\* C17 (as claimed): in super mode the target of a pending super_coup is
\* never offered block_coup with exactly 1 card and is offered it with 2.
C17_SuperCoupAsClaimed ==
    (BlockAwaited /\ view.mode = "super_team"
        /\ view.pending_action.action = "super_coup" /\ isTarget(view))
    => /\ You(view).num_cards = 1 => "block_coup" \notin blockPanel(view).buttons
       /\ You(view).num_cards = 2 => "block_coup" \in blockPanel(view).buttons

\* C17 (amended): in super mode the target of a pending coup by an opponent
\* is offered block_coup exactly when holding >= 2 cards; the target of a
\* pending super_coup is never offered it, with 1 card or with 2.
C17_CoupBlockAsymmetry ==
    (BlockAwaited /\ view.mode = "super_team" /\ isTarget(view)
        /\ view.players[view.pending_action.actor_id].team # You(view).team)
    => /\ view.pending_action.action = "coup" =>
             ("block_coup" \in blockPanel(view).buttons
                 <=> You(view).num_cards >= 2)
       /\ view.pending_action.action = "super_coup" =>
             "block_coup" \notin blockPanel(view).buttons

\* The target of a super_coup, holding 2 cards, was offered no block and
\* has just let it through.
C17_Witness ==
    /\ BlockAwaited
    /\ view.mode = "super_team"
    /\ view.pending_action.action = "super_coup"
    /\ isTarget(view)
    /\ You(view).num_cards = 2
    /\ blockPanel(view).buttons = {}
    /\ last.op = "no_block" /\ last.step = "call"

\* C18 (as claimed): for every targeted pending action, super_coup
\* included, an opponent of the actor who is not the target sees the
\* info-only notice: no block button and no pass control.
C18_NonTargetInfoOnly ==
    (BlockAwaited
        /\ view.pending_action.action \in targetRequiredActions
        /\ view.players[view.pending_action.actor_id].team # You(view).team
        /\ view.pending_action.target_id # You(view).player_id)
    => /\ blockPanel(view).kind = "info_not_target"
       /\ blockPanel(view).buttons = {}
       /\ ~blockPanel(view).pass

\* C19: a viewer on the actor's team (the actor or a teammate, also as the
\* target) sees the info-only notice, no block button and no pass control,
\* whatever the pending action.
C19_SameTeamInfoOnly ==
    (BlockAwaited
        /\ view.players[view.pending_action.actor_id].team = You(view).team)
    => /\ blockPanel(view).kind = "info_same_team"
       /\ blockPanel(view).buttons = {}
       /\ ~blockPanel(view).pass

\* The viewer's teammate p3 steals from the viewer: the notice is shown.
C19_Witness ==
    /\ BlockAwaited
    /\ view.pending_action =
          [actor_id |-> "p3", action |-> "steal", target_id |-> "p1"]
    /\ blockPanel(view).kind = "info_same_team"

\* C20: for a pending income, tax, super_tax, exchange or super_exchange,
\* and for a coup in normal mode, no block button is offered.
C20_UnblockableNoButtons ==
    (BlockAwaited
        /\ \/ view.pending_action.action \in
                 {"income", "tax", "super_tax", "exchange", "super_exchange"}
           \/ view.pending_action.action = "coup" /\ view.mode = "normal_team")
    => blockPanel(view).buttons = {}

\* In normal mode the target of p2's coup, holding 2 cards, sees the block
\* controls without any block button.
C20_Witness ==
    /\ BlockAwaited
    /\ view.mode = "normal_team"
    /\ view.pending_action =
          [actor_id |-> "p2", action |-> "coup", target_id |-> "p1"]
    /\ You(view).num_cards = 2
    /\ blockPanel(view).kind = "controls"
    /\ blockPanel(view).buttons = {}

\* A challenge is awaited and the held view names its subject.
ChallengeAwaited ==
    Mounted /\ view.phase = "challenge_window"
        /\ view.pending_action # NullAction

\* C21: in challenge_window the Challenge and Pass controls are offered
\* exactly to a living viewer who is neither the claimant (the blocker if a
\* block is pending, else the actor) nor on the claimant's team.
C21_ChallengeEligibility ==
    ChallengeAwaited =>
        LET claimant == IF view.pending_block # NullBlock
                        THEN view.pending_block.blocker_id
                        ELSE view.pending_action.actor_id
            eligible == /\ You(view).alive
                        /\ claimant # view.you
                        /\ view.players[claimant].team # You(view).team
        IN /\ challengePanel(view).challenge <=> eligible
           /\ challengePanel(view).pass <=> eligible

\* A living opponent of the actor has just clicked Challenge against an
\* action that nobody blocked.
C21_Witness ==
    /\ ChallengeAwaited
    /\ view.pending_block = NullBlock
    /\ view.players[view.pending_action.actor_id].team # You(view).team
    /\ You(view).alive
    /\ last.op = "challenge" /\ last.step = "call"

\* C22: with a block pending the subject of the challenge is the block: the
\* blocker has no challenge control, a living viewer not on the blocker's
\* team has it, the original actor included; without a block the subject
\* is the action and the actor's team decides.
C22_ChallengeSubject ==
    ChallengeAwaited =>
        LET pa == view.pending_action
            pb == view.pending_block
            you == You(view)
        IN /\ pb # NullBlock =>
                 /\ pb.blocker_id = view.you => ~challengePanel(view).challenge
                 /\ (you.alive /\ view.players[pb.blocker_id].team # you.team)
                       => challengePanel(view).challenge
                 /\ view.players[pb.blocker_id].team = you.team
                       => ~challengePanel(view).challenge
           /\ pb = NullBlock =>
                 (challengePanel(view).challenge
                     <=> you.alive /\ view.players[pa.actor_id].team # you.team)

\* The viewer is the actor of a steal that opponent p2 blocks, and has just
\* clicked Challenge.
C22_Witness ==
    /\ ChallengeAwaited
    /\ view.pending_action.actor_id = "p1"
    /\ view.pending_action.action = "steal"
    /\ view.pending_block # NullBlock
    /\ view.pending_block.blocker_id = "p2"
    /\ last.op = "challenge" /\ last.step = "call"


\* the swap panel of the chooser is on screen
SwapAwaited ==
    Mounted /\ view.phase = "swap_choice" /\ isYouChoosingSwap(view)

\* C23: in swap_choice Confirm exchange is enabled exactly when the number
\* of selected indices equals the viewer's num_cards, and a finish_exchange
\* request is only ever sent with the selection on screen, which has
\* exactly that size.
C23_ConfirmNeedsExactCount ==
    /\ [](SwapAwaited =>
             (swapConfirmEnabled(view, swapSelected)
                  <=> Cardinality(Indices(swapSelected))
                          = You(view).num_cards))
    /\ [][last'.op = "finish_exchange" /\ last'.step = "call"
              /\ last' # last
            => /\ SwapAwaited
               /\ last'.payload = swapSelected
               /\ Len(last'.payload) = You(view).num_cards
               /\ Cardinality(Indices(last'.payload)) = You(view).num_cards
               /\ CopiesIn(Request("finish_exchange", 0), net')
                      = CopiesIn(Request("finish_exchange", 0), net) + 1]_vars

\* C23 witness: two cards are kept out of a pool of three and the
\* exchange has been confirmed.
C23_Witness ==
    /\ SwapAwaited
    /\ last.op = "finish_exchange" /\ last.step = "call"
    /\ Len(last.payload) = 2
    /\ You(view).num_cards = 2
    /\ Len(swapCards(view)) = 3
    /\ CopiesIn(Request("finish_exchange", 0), net) = 1

\* C24: a click on a selected index removes it; a click on an unselected
\* index while num_cards indices are selected changes nothing; any other
\* click appends the index.  The selected indices stay pairwise distinct and
\* never number more than num_cards.
C24_ToggleIndex ==
    /\ [](SwapAwaited =>
             /\ Cardinality(Indices(swapSelected)) = Len(swapSelected)
             /\ Len(swapSelected) <= You(view).num_cards
             /\ Indices(swapSelected) \subseteq 0 .. Len(swapCards(view)) - 1)
    /\ [][SwapToggle /\ last'.op = "toggleIndex" =>
             LET idx == last'.payload[1]
             IN IF idx \in Indices(swapSelected)
                THEN /\ Indices(swapSelected') = Indices(swapSelected) \ {idx}
                     /\ Len(swapSelected') = Len(swapSelected) - 1
                ELSE IF Len(swapSelected) = You(view).num_cards
                THEN swapSelected' = swapSelected
                ELSE swapSelected' = Append(swapSelected, idx)]_vars

\* C24 witness: with num_cards indices selected, a click on a further card
\* of the pool has left the selection as it was.
C24_Witness ==
    /\ SwapAwaited
    /\ last.op = "toggleIndex"
    /\ last.payload[1] \notin Indices(swapSelected)
    /\ Len(swapSelected) = You(view).num_cards
    /\ You(view).num_cards = 2

\* the controls of the choice panels: cards to click and a confirm button
ChoiceControls(v) ==
    IF v.phase = "swap_choice" THEN swapPanel(v).kind = "controls"
    ELSE IF v.phase = "loss_choice" THEN lossPanel(v).kind = "controls"
    ELSE FALSE

\* C25: in swap_choice only the viewer who is current_player gets the
\* selection controls, in loss_choice only the viewer named by
\* loss_choice_player_id; every other viewer gets the wait notice, and no
\* selection or confirmation comes from such a viewer.
C25_OnlyChooserHasControls ==
    /\ [](Mounted /\ view.phase = "swap_choice" =>
             IF view.current_player = view.you
             THEN swapPanel(view).kind = "controls"
             ELSE swapPanel(view) = [kind |-> "wait", cards |-> {}])
    /\ [](Mounted /\ view.phase = "loss_choice" /\ lossPlayerKnown(view) =>
             IF view.loss_choice_player_id = view.you
             THEN lossPanel(view).kind = "controls"
             ELSE lossPanel(view) = [kind |-> "wait", cards |-> {}])
    /\ [][last' # last
              /\ last'.op \in {"toggleIndex", "finish_exchange",
                               "selectLoss", "choose_loss"}
              /\ last'.step = "call"
            => IF last'.op \in {"toggleIndex", "finish_exchange"}
               THEN view.phase = "swap_choice"
                        /\ view.current_player = view.you
               ELSE view.phase = "loss_choice"
                        /\ view.loss_choice_player_id = view.you]_vars

\* C25 witness: the viewer is the current player of a loss_choice in which
\* somebody else chooses, and sees the wait notice.
C25_Witness ==
    /\ Mounted /\ view.phase = "loss_choice"
    /\ view.current_player = view.you
    /\ lossPlayerKnown(view)
    /\ view.loss_choice_player_id # view.you
    /\ lossPanel(view).kind = "wait"
    /\ ~ChoiceControls(view)

\* the loss panel of the chooser is on screen
LossAwaited ==
    Mounted /\ view.phase = "loss_choice" /\ lossPanel(view).kind = "controls"

\* C26: in loss_choice at most one index is selected, a click on another
\* card replaces it, Confirm discard is disabled while nothing is selected,
\* and a choose_loss request carries exactly the selected index, which is an
\* index of the offered cards.
C26_LossChoice ==
    /\ [](LossAwaited =>
             /\ Len(lossSelected) <= 1
             /\ Indices(lossSelected) \subseteq 0 .. Len(lossCards(view)) - 1
             /\ (lossSelected = <<>> => ~lossConfirmEnabled(lossSelected)))
    /\ [][LossSelect /\ last'.op = "selectLoss" =>
             lossSelected' = <<last'.payload[1]>>]_vars
    /\ [][last'.op = "choose_loss" /\ last'.step = "call" /\ last' # last
            => /\ LossAwaited
               /\ lossSelected # <<>>
               /\ last'.payload = <<lossSelected[1]>>
               /\ Len(lossSelected) = 1
               /\ lossSelected[1] \in 0 .. Len(lossCards(view)) - 1
               /\ CopiesIn(Request("choose_loss", 0), net')
                      = CopiesIn(Request("choose_loss", 0), net) + 1]_vars

\* C26 witness: the second of the viewer's own two cards, offered because
\* the view carries no loss_choice_cards, has been chosen and confirmed.
C26_Witness ==
    /\ LossAwaited
    /\ view.loss_choice_cards.isNull
    /\ Len(lossCards(view)) = 2
    /\ last.op = "choose_loss" /\ last.step = "call"
    /\ last.payload = <<1>>
    /\ lossSelected = <<1>>


\* The controls a rendering of view v exposes, by kind: the buttons of the
\* action panel, and "target" when a click on some seat selects it.
Controls(v) ==
    (IF startEnabled(v) THEN {"start"} ELSE {})
        \cup (IF \E action \in Actions : actionOffered(v, action)
              THEN {"action"} ELSE {})
        \cup (IF blockPanel(v).buttons # {} THEN {"block"} ELSE {})
        \cup (IF blockPanel(v).pass THEN {"no_block"} ELSE {})
        \cup (IF challengePanel(v).challenge THEN {"challenge"} ELSE {})
        \cup (IF challengePanel(v).pass THEN {"no_challenge"} ELSE {})
        \cup (IF swapPanel(v).kind = "controls" THEN {"exchange"} ELSE {})
        \cup (IF lossPanel(v).kind = "controls" THEN {"loss"} ELSE {})
        \cup (IF \E p \in SeatIds(v) :
                    handleSeatClick(NULL, v.players[p], You(v)) # NULL
              THEN {"target"} ELSE {})

\* the affordance set of a phase
PhaseControls(phase) ==
    CASE phase = "lobby" -> {"start"}
      [] phase = "action_selection" -> {"action", "target"}
      [] phase = "block_window" -> {"block", "no_block"}
      [] phase = "challenge_window" -> {"challenge", "no_challenge"}
      [] phase = "swap_choice" -> {"exchange"}
      [] phase = "loss_choice" -> {"loss"}
      [] OTHER -> {}

\* C27 (as claimed): while the held view's phase is game_over no control is
\* exposed (no action, block, challenge, pass, exchange, loss or start
\* control and no target selection) and no target gets selected; only the
\* winning team is displayed.
C27_GameOverTerminal ==
    /\ [](Mounted /\ view.phase = "game_over" => Controls(view) = {})
    /\ [][Mounted /\ view.phase = "game_over" /\ view' = view
            => selectedTarget' = selectedTarget /\ net' = net]_vars

\* C28 (as claimed): the controls a view exposes all belong to the
\* affordance set of the view's phase.
C28_PhaseExclusivity ==
    Mounted => Controls(view) \subseteq PhaseControls(view.phase)


\* the ids of a turn order
Seated(v) == {v.turn_order[i] : i \in DOMAIN v.turn_order}

\* C29: for a viewer at index i of an N-seat turn order the rendered seats
\* start with the viewer and go on with the players at i+1..N-1, then
\* 0..i-1, in their original order; every seat of the turn order appears
\* exactly once, dead players included.
C29_SeatRotation ==
    last.op = "render" /\ view.you \in Seated(view) =>
        LET order == view.turn_order
            N == Len(order)
            i == CHOOSE k \in 0 .. N - 1 : order[k + 1] = view.you
            shown == last.payload
        IN /\ last.ok
           /\ Len(shown) = N
           /\ shown[1] = view.you
           /\ \A k \in 0 .. N - 1 : shown[k + 1] = order[((i + k) % N) + 1]
           /\ \A p \in Seated(view) :
                 Cardinality({k \in DOMAIN shown : shown[k] = p}) = 1
           /\ \A k \in DOMAIN shown : shown[k] \in DOMAIN view.players

\* C29 witness: the viewer sits at index 2 of four seats, a dead player
\* among them, and the seats are shown from the viewer on, wrapping around.
C29_Witness ==
    /\ last.op = "render" /\ last.ok
    /\ view.turn_order = <<"p1", "p2", "p3", "p4">>
    /\ view.you = "p3"
    /\ ~view.players["p2"].alive
    /\ last.payload = <<"p3", "p4", "p1", "p2">>

\* C30 (as claimed): for a viewer whose id is not in the turn order the
\* seats are rendered in the canonical order, and rendering raises no error.
C30_SpectatorKeepsOrder ==
    last.op = "render" /\ view.you \notin Seated(view) =>
        last.ok /\ last.payload = view.turn_order


\* C31: seat rotation is idempotent: rotating the rotated order for the
\* same viewer gives the rotated order again, and an order that already has
\* the viewer first is returned as it is.
C31_RotationIdempotent ==
    last.op = "render" /\ last.ok =>
        LET order == view.turn_order
            id == You(view).player_id
            once == rotatedIds(order, id)
        IN /\ rotatedIds(once, id) = once
           /\ last.payload = once
           /\ (Len(order) > 0 /\ order[1] = id) => once = order

\* C31 witness: the viewer sits at index 2 of four seats, so that the
\* rotated order differs from the turn order, and rotating it again leaves
\* it as it is.
C31_Witness ==
    /\ last.op = "render" /\ last.ok
    /\ Len(view.turn_order) = 4
    /\ indexOf(view.turn_order, view.you) = 2
    /\ last.payload # view.turn_order
    /\ rotatedIds(last.payload, view.you) = last.payload


\* C32 (as claimed): when the server rejects a command, the error banner is
\* set to the body of the response and the held view is left as it was.
C32_BannerIsBodyAsClaimed ==
    [][\A r \in BagToSet(net) : \A a \in Replies(r) :
          (r.kind \in CommandKinds /\ a.res.status = "http"
              /\ commandSettle(r, a.res, a.v))
          => error' = a.res.body /\ view' = view]_vars

\* C32 (amended): when the server rejects a command, the error banner is
\* set to the body of the response if the body is not empty, else to the
\* status text of the response, else to "Error"; the held view is left as
\* it was, and it only ever changes when a poll, a fetch or a command
\* settles successfully.
C32_RejectionSurfaced ==
    /\ [][\A r \in BagToSet(net) : \A a \in Replies(r) :
            (r.kind \in CommandKinds /\ a.res.status = "http"
                /\ commandSettle(r, a.res, a.v))
            => /\ error' = IF a.res.body # "" THEN a.res.body
                           ELSE IF a.res.statusText # "" THEN a.res.statusText
                           ELSE "Error"
               /\ view' = view]_vars
    /\ [][view' # view => last'.step = "settle" /\ last'.ok]_vars

\* C32 witness: an action has been rejected with a text body; the banner
\* shows that text over the view held before.
C32_Witness ==
    /\ last.op = "action" /\ last.step = "settle" /\ ~last.ok
    /\ error = "illegal move"
    /\ Mounted /\ view.phase = "action_selection"

\* C33: when a mutating command succeeds, the held view becomes the
\* GameView the command returned, whatever view was held.
C33_CommandCommitsReturnedView ==
    [][\A r \in BagToSet(net) : \A a \in Replies(r) :
          (r.kind \in CommandKinds /\ a.res = OkResponse
              /\ commandSettle(r, a.res, a.v))
          => view' = a.v /\ error' = error]_vars

\* C33 witness: an action has succeeded and the view it returned, of a
\* block_window, has replaced the action_selection view held before.
C33_Witness ==
    /\ last.op = "action" /\ last.step = "settle" /\ last.ok
    /\ Mounted /\ view.phase = "block_window"
    /\ view = GameView(view.ver, "block_window", "p1", TRUE)


\* C34 (as claimed): when the view or the selection refers to an id that is
\* no key of players, rendering completes without an exception and the
\* action panel exposes no control.
C34_DanglingReferencesInert ==
    last.op = "renderTable" /\ Dangling(view, selectedTarget) =>
        /\ last.ok
        /\ Controls(view) \ {"target"} = {}


\* C35: the narrative summary reads "<blocker name> attempts to block
\* <actor name>'s <phrase>" when a block and an action are pending,
\* "<actor name> attempts <phrase>" when only an action is pending, and is
\* null when no action is pending, with or without a pending block.
C35_NarrativeSummary ==
    last.op = "summary" =>
        LET pa == view.pending_action
            pb == view.pending_block
            summary == last.payload[1]
        IN IF pa = NullAction
           THEN summary = NULL
           ELSE IF pb = NullBlock
           THEN summary = NameOf(pa.actor_id) \o " attempts " \o summaryPhrase(view)
           ELSE summary = NameOf(pb.blocker_id) \o " attempts to block "
                              \o NameOf(pa.actor_id) \o "'s "
                              \o summaryPhrase(view)

\* C35 witness: Cy's block of Bob's Captain on Ann is narrated.
C35_Witness ==
    /\ last.op = "summary"
    /\ view.pending_block # NullBlock
    /\ last.payload[1] = "Cy attempts to block Bob's Captain from Ann"

\* the target clause an action phrase may end with
Clause(prep, name) == " " \o prep \o " " \o name

C37_ViewNeverGoesBack ==
    [][\A r \in BagToSet(net) :
          (/\ last.op \in CommandKinds /\ last.step = "settle" /\ last.ok
           /\ r.kind = "poll" /\ r.sentVer < view.ver
           /\ last'.op = "loop" /\ last'.step = "settle"
           /\ net' = Remove(net, r))
          => view'.ver >= view.ver]_vars


\* C38 (as claimed): a selected target is, in the view held, a player that
\* exists, is alive, is on the other team and is not the viewer, and every
\* targeted action that is dispatched names such a player.
C38_SelectionStaysEligible ==
    /\ [](Mounted /\ selectedTarget # NULL =>
             selectedTarget \in DOMAIN view.players
                 /\ Eligible(view, selectedTarget))
    /\ [][last' # last /\ last'.op = "action" /\ last'.step = "call"
              /\ last'.action \in targetRequiredActions
            => last'.target_id \in DOMAIN view.players
                   /\ Eligible(view, last'.target_id)]_vars


\* C39: dispatching an untargeted action sends target_id null, also while
\* a target is selected, and leaves the selection as it is.
C39_UntargetedDispatch ==
    [][\A a \in Actions \ targetRequiredActions :
          (ActionClick /\ last'.op = "action" /\ last'.step = "call"
              /\ last'.action = a)
          => /\ last'.target_id = NULL
             /\ net' = Add(net, Request("action", 0))
             /\ selectedTarget' = selectedTarget]_vars

\* C39 witness: tax has just been sent without a target while p2 is, and
\* stays, selected.
C39_Witness ==
    /\ last.op = "action" /\ last.step = "call"
    /\ last.action = "tax" /\ last.target_id = NULL
    /\ selectedTarget = "p2"


\* C40 (as claimed): a dead viewer is offered no block button and no
\* let-it-through control in block_window, and no challenge or pass
\* control in challenge_window.
C40_DeadViewerNoContest ==
    Mounted /\ ~You(view).alive =>
        /\ blockPanel(view).buttons = {}
        /\ ~blockPanel(view).pass
        /\ ~challengePanel(view).challenge
        /\ ~challengePanel(view).pass

====
